---- MODULE Spec2Model ----
(***************************************************************************)
(* Model of src/main.py: the interactive YouTubeDownloader.                *)
(*                                                                         *)
(* Processes: the orchestrator (run / _download_playlist / _download_video,*)
(* position in pc), the progress thread of a video-mode merge              *)
(* (_update_ffmpeg_progress), and the external ffmpeg process the          *)
(* orchestrator spawns with subprocess.Popen.                              *)
(***************************************************************************)
EXTENDS Naturals, Sequences, FiniteSets

\* ---- bounds of the model ------------------------------------------------
MaxOps == 2        \* URLs the user enters in one session
MaxPlaylist == 2   \* videos of a playlist
MaxUrlLen == 3     \* tokens of a playlist URL
MaxLog == 2        \* lines ffmpeg writes to its -progress file
PipeCap == 1       \* capacity of an OS pipe, in chunks
MaxOutput == 2     \* chunks ffmpeg writes to stderr (more than one pipe holds)
AudioChunks == 2   \* chunks of the in-memory audio buffer (sound mode)

VARIABLES
    platform,    \* platform.system()
    ffmpeg,      \* shutil.which("ffmpeg") finds the encoder
    mode,        \* self.mode
    pc,          \* position of the orchestrator
    lastCmd,     \* history: target of the last mode command typed ("none" if none)
    ops,         \* URLs entered so far
    fs,          \* the files the program touches: "absent", "old" (from before
                 \* the current operation) or "new" (written by it)
    msgs,        \* messages the current operation has printed
    streams,     \* result of the stream selection of the current operation
    thread,      \* the progress thread of the current operation
    orphans,     \* progress threads of earlier operations that never ended
    enc,         \* the ffmpeg process
    returncode,  \* process.returncode
    pipe,        \* chunks waiting in the stderr pipe
    inLeft,      \* chunks of input communicate() has still to write
    inPipe,      \* chunks waiting in the stdin pipe
    plog,        \* the lines of the progress file
    tpos,        \* lines the progress thread has read
    pbar,        \* pbar.n
    pl           \* _download_playlist's locals

vars == <<platform, ffmpeg, mode, pc, lastCmd, ops, fs, msgs, streams, thread,
          orphans, enc, returncode, pipe, inLeft, inPipe, plog, tpos, pbar, pl>>

envVars == <<platform, ffmpeg>>
procVars == <<enc, returncode, pipe, inLeft, inPipe>>
threadVars == <<thread, orphans, tpos, pbar>>
sessionVars == <<mode, lastCmd, ops, pl>>

Platforms == {"Darwin", "Linux", "Windows"}

Files == {"temp_dir", "video_tmp", "audio_tmp", "progress", "stale_progress",
          "mp4", "mp3", "caption"}

NoEnc == [st |-> "none", left |-> 0, overwrite |-> FALSE, refused |-> FALSE,
          out |-> "none", rc |-> "None"]
NoStreams == [selected |-> FALSE, video |-> FALSE, audio |-> FALSE]
NoPlaylist == [active |-> FALSE, listParam |-> FALSE, id |-> <<>>,
               resolved |-> FALSE, urls |-> <<>>,
               idx |-> 0, invoked |-> <<>>, pauses |-> 0, result |-> "none"]

\* ---- pure helpers -------------------------------------------------------

\* str.strip() on the inputs of RawInputs
Strip(s) ==
    CASE s = "  " -> ""
      [] s = " /Sound " -> "/Sound"
      [] s = "/exit " -> "/exit"
      [] OTHER -> s

\* str.lower() on the stripped inputs
Lower(s) ==
    CASE s = "/VIDEO" -> "/video"
      [] s = "/Sound" -> "/sound"
      [] OTHER -> s

RawInputs == {"/exit", "/exit ", "/video", "/VIDEO", "/sound", " /Sound ", "",
              "  ", "https://youtu.be/x", "/videos"}

\* The mode command a raw input line is, if it is one (the session's history).
ModeCommand(raw) ==
    IF raw \in {"/video", "/VIDEO"} THEN "V"
    ELSE IF raw \in {"/sound", " /Sound "} THEN "S"
    ELSE "none"

\* Files of an earlier operation are "old" to the next one; every operation
\* gets a progress file of a fresh name, so an earlier one left behind is
\* another file.
Age(f) ==
    [x \in Files |->
        IF x = "stale_progress"
          THEN (IF f["progress"] # "absent" \/ f["stale_progress"] # "absent"
                  THEN "old" ELSE "absent")
        ELSE IF x = "progress" THEN "absent"
        ELSE IF f[x] = "new" THEN "old"
        ELSE f[x]]

Alive(t) == t \in {"started", "reading", "sleeping"}
HoldsFile(t) == t \in {"reading", "sleeping"}

\* ---- the progress file's lines -----------------------------------------
TimeLine == [key |-> "out_time_ms", val |-> "1000000"]
BadTimeLine == [key |-> "out_time_ms", val |-> "N/A"]
EndLine == [key |-> "progress", val |-> "end"]
ProgressLines == {TimeLine, BadTimeLine, EndLine}

HasEnd(log) == \E i \in 1..Len(log) : log[i] = EndLine

\* int(parts[1]) raises ValueError unless the text is a number
IsInt(v) == v = "1000000"
ParseInt(v) == IF v = "1000000" THEN 1000000 ELSE 0

\* ---- Init ---------------------------------------------------------------
Init ==
    /\ platform \in Platforms
    /\ ffmpeg \in BOOLEAN
    /\ mode = "S"
    /\ pc = "check_deps"
    /\ lastCmd = "none"
    /\ ops = 0
    /\ fs = [x \in Files |-> "absent"]
    /\ msgs = {}
    /\ streams = NoStreams
    /\ thread = "none"
    /\ orphans = 0
    /\ enc = NoEnc
    /\ returncode = "None"
    /\ pipe = 0
    /\ inLeft = 0
    /\ inPipe = 0
    /\ plog = <<>>
    /\ tpos = 0
    /\ pbar = 0
    /\ pl = NoPlaylist

\* ---- run() --------------------------------------------------------------

\* _check_dependencies: a missing ffmpeg offers to exit; the user may go on.
\* (pytubefix and tqdm are imported at the top of the file, so the package
\* check never finds one missing.)
CheckDependencies ==
    /\ pc = "check_deps"
    /\ \E answer \in {"y", "n"} :
         pc' = IF ~ffmpeg /\ answer = "y" THEN "exited" ELSE "prompt"
    /\ UNCHANGED <<envVars, procVars, threadVars, sessionVars, fs, msgs,
                   streams, plog>>

\* One iteration of the loop of run(): read a line and dispatch on it.
Prompt ==
    /\ pc = "prompt"
    /\ \E raw \in RawInputs :
         LET user_input == Strip(raw)
             cmd == ModeCommand(raw)
         IN /\ lastCmd' = IF cmd = "none" THEN lastCmd ELSE cmd
            /\ IF Lower(user_input) = "/exit"
                 THEN /\ pc' = "exited"
                      /\ UNCHANGED <<mode, ops>>
               ELSE IF Lower(user_input) = "/video"
                 THEN /\ mode' = "V"
                      /\ pc' = "prompt"
                      /\ UNCHANGED ops
               ELSE IF Lower(user_input) = "/sound"
                 THEN /\ mode' = "S"
                      /\ pc' = "prompt"
                      /\ UNCHANGED ops
               ELSE IF user_input = ""
                 THEN /\ pc' = "prompt"
                      /\ UNCHANGED <<mode, ops>>
               ELSE /\ ops < MaxOps
                    /\ ops' = ops + 1
                    /\ pc' = "start"
                    /\ UNCHANGED mode
    /\ UNCHANGED <<envVars, procVars, threadVars, fs, msgs, streams, plog, pl>>

\* ---- _download_video ----------------------------------------------------

\* Where _download_video returns to.
ReturnTo == IF pl.active THEN "pl_sleep" ELSE "prompt"

\* Lines 56-59: resolve the URL, sanitize the title.
BeginOp ==
    /\ pc = "start"
    /\ fs' = Age(fs)
    /\ streams' = NoStreams
    /\ thread' = "none"
    /\ orphans' = orphans + (IF Alive(thread) THEN 1 ELSE 0)
    /\ enc' = NoEnc
    /\ returncode' = "None"
    /\ pipe' = 0
    /\ inLeft' = 0
    /\ inPipe' = 0
    /\ plog' = <<>>
    /\ tpos' = 0
    /\ pbar' = 0
    /\ \E resolved \in BOOLEAN :
         IF resolved
           THEN /\ msgs' = {"Processing"}
                /\ pc' = "caption"
           ELSE /\ msgs' = {}
                /\ pc' = "handler"
    /\ UNCHANGED <<envVars, sessionVars>>

\* The caption step without its own try: what it raises ends the operation.
CaptionStep_Propagates ==
    /\ pc = "caption"
    /\ \E outcome \in {"ok", "absent", "lookup_raises", "download_raises",
                       "download_raises_partial"} :
         /\ msgs' = IF outcome = "ok" THEN msgs \cup {"Captions downloaded."}
                    ELSE IF outcome = "absent" THEN msgs \cup {"No captions available"}
                    ELSE msgs
         /\ fs' = IF outcome \in {"ok", "download_raises_partial"}
                    THEN [fs EXCEPT !["caption"] = "new"] ELSE fs
         /\ pc' = IF outcome \in {"ok", "absent"} THEN "branch" ELSE "handler"
    /\ UNCHANGED <<envVars, procVars, threadVars, sessionVars, streams, plog>>

\* Lines 62-70: the caption step, with its own handler.
CaptionStep ==
    /\ pc = "caption"
    /\ \E outcome \in {"ok", "absent", "lookup_raises", "download_raises",
                       "download_raises_partial"} :
         /\ msgs' = msgs \cup
              {CASE outcome = "ok" -> "Captions downloaded."
                 [] outcome = "absent" -> "No captions available"
                 [] OTHER -> "Could not download captions"}
         /\ fs' = IF outcome \in {"ok", "download_raises_partial"}
                    THEN [fs EXCEPT !["caption"] = "new"] ELSE fs
    /\ pc' = "branch"
    /\ UNCHANGED <<envVars, procVars, threadVars, sessionVars, streams, plog>>

\* Lines 72 and 144: the mode branch.
Branch ==
    /\ pc = "branch"
    /\ pc' = IF mode = "V" THEN "v_select" ELSE "s_select"
    /\ UNCHANGED <<envVars, procVars, threadVars, sessionVars, fs, msgs,
                   streams, plog>>

\* The operation without its handler: inside a playlist the exception reaches
\* _download_playlist's.
Handler_Propagates ==
    /\ pc = "handler"
    /\ msgs' = msgs \cup {"An error occurred during video processing"}
    /\ pc' = IF pl.active THEN "pl_handler" ELSE "op_end"
    /\ UNCHANGED <<envVars, procVars, threadVars, sessionVars, fs, streams, plog>>

\* Lines 176-177: the handler of the whole operation.
Handler ==
    /\ pc = "handler"
    /\ msgs' = msgs \cup {"An error occurred during video processing"}
    /\ pc' = "op_end"
    /\ UNCHANGED <<envVars, procVars, threadVars, sessionVars, fs, streams, plog>>

\* A mode that lasts one download only: back to the default after it.
OpEnd_ResetsMode ==
    /\ pc = "op_end"
    /\ pc' = ReturnTo
    /\ mode' = "S"
    /\ UNCHANGED <<envVars, procVars, threadVars, lastCmd, ops, pl, fs, msgs,
                   streams, plog>>

\* _download_video returns; run() prints the current mode (line 253).
OpEnd ==
    /\ pc = "op_end"
    /\ pc' = ReturnTo
    /\ UNCHANGED <<envVars, procVars, threadVars, sessionVars, fs, msgs,
                   streams, plog>>

\* ---- video mode (lines 72-142) ------------------------------------------

\* The temporary directory made before the streams are looked at.
VideoSelect_MkdirFirst ==
    /\ pc = "v_select"
    /\ \E raises \in BOOLEAN, hasVideo \in BOOLEAN, hasAudio \in BOOLEAN :
         IF raises
           THEN /\ pc' = "handler"
                /\ UNCHANGED <<streams, msgs, fs>>
           ELSE /\ streams' = [selected |-> TRUE, video |-> hasVideo,
                               audio |-> hasAudio]
                /\ fs' = IF fs["temp_dir"] = "absent"
                           THEN [fs EXCEPT !["temp_dir"] = "new"] ELSE fs
                /\ IF ~hasVideo
                     THEN /\ msgs' = msgs \cup {"No video stream found."}
                          /\ pc' = "op_end"
                   ELSE IF ~hasAudio
                     THEN /\ msgs' = msgs \cup {"No audio stream found."}
                          /\ pc' = "op_end"
                   ELSE /\ pc' = "v_mkdir"
                        /\ UNCHANGED msgs
    /\ UNCHANGED <<envVars, procVars, threadVars, sessionVars, plog>>

\* Lines 74-83: select the two streams; a missing one ends the operation.
VideoSelect ==
    /\ pc = "v_select"
    /\ \E raises \in BOOLEAN, hasVideo \in BOOLEAN, hasAudio \in BOOLEAN :
         IF raises
           THEN /\ pc' = "handler"
                /\ UNCHANGED <<streams, msgs>>
           ELSE /\ streams' = [selected |-> TRUE, video |-> hasVideo,
                               audio |-> hasAudio]
                /\ IF ~hasVideo
                     THEN /\ msgs' = msgs \cup {"No video stream found."}
                          /\ pc' = "op_end"
                   ELSE IF ~hasAudio
                     THEN /\ msgs' = msgs \cup {"No audio stream found."}
                          /\ pc' = "op_end"
                   ELSE /\ pc' = "v_mkdir"
                        /\ UNCHANGED msgs
    /\ UNCHANGED <<envVars, procVars, threadVars, sessionVars, fs, plog>>

\* Lines 85-86: os.makedirs(temp_dir, exist_ok=True)
VideoMkdir ==
    /\ pc = "v_mkdir"
    /\ fs' = IF fs["temp_dir"] = "absent"
               THEN [fs EXCEPT !["temp_dir"] = "new"] ELSE fs
    /\ pc' = "v_dl_video"
    /\ UNCHANGED <<envVars, procVars, threadVars, sessionVars, msgs, streams, plog>>

\* stream.download(...) into .temp: the file is written as the bytes arrive,
\* so a failure may leave what was written so far.
StreamDownload(file, done, nextpc) ==
    \E outcome \in {"ok", "raises", "raises_partial"} :
       /\ fs' = IF outcome = "raises" THEN fs ELSE [fs EXCEPT ![file] = "new"]
       /\ IF outcome = "ok"
            THEN /\ msgs' = msgs \cup {done}
                 /\ pc' = nextpc
            ELSE /\ pc' = "handler"
                 /\ UNCHANGED msgs

\* Lines 88-90
VideoDownloadVideo ==
    /\ pc = "v_dl_video"
    /\ StreamDownload("video_tmp", "Video stream download complete.", "v_dl_audio")
    /\ UNCHANGED <<envVars, procVars, threadVars, sessionVars, streams, plog>>

\* Lines 92-94
VideoDownloadAudio ==
    /\ pc = "v_dl_audio"
    /\ StreamDownload("audio_tmp", "Audio stream download complete.", "v_progress_file")
    /\ UNCHANGED <<envVars, procVars, threadVars, sessionVars, streams, plog>>

\* Lines 96-99: the progress file is created (delete=False).
VideoProgressFile ==
    /\ pc = "v_progress_file"
    /\ msgs' = msgs \cup {"Merging video and audio streams with ffmpeg..."}
    /\ fs' = [fs EXCEPT !["progress"] = "new"]
    /\ plog' = <<>>
    /\ pc' = "v_length"
    /\ UNCHANGED <<envVars, procVars, threadVars, sessionVars, streams>>

\* Lines 100-113: the merge command
VideoCommand ==
    [overwrite |-> TRUE,   \* '-y'
     nostdin |-> TRUE,
     codec |-> IF platform = "Darwin" THEN "h264_videotoolbox" ELSE "libx264",
     out |-> "mp4"]

\* Line 115: yt.length, outside the try of the merge
VideoLength ==
    /\ pc = "v_length"
    /\ \E raises \in BOOLEAN :
         pc' = IF raises THEN "handler" ELSE "v_thread"
    /\ UNCHANGED <<envVars, procVars, threadVars, sessionVars, fs, msgs,
                   streams, plog>>

\* Lines 118-120: the progress bar and the progress thread
VideoThreadStart ==
    /\ pc = "v_thread"
    /\ thread' = "started"
    /\ tpos' = 0
    /\ pbar' = 0
    /\ pc' = "v_popen"
    /\ UNCHANGED <<envVars, procVars, orphans, sessionVars, fs, msgs, streams, plog>>

\* What ffmpeg is to do once spawned with `command`: the chunks it will write
\* to stderr. An existing output is refused unless the command says '-y'.
Spawn(command, left) ==
    [st |-> "running", left |-> left, overwrite |-> command.overwrite,
     refused |-> FALSE, out |-> command.out, rc |-> "None"]

\* Line 122: subprocess.Popen raises when there is no ffmpeg to start.
VideoPopen ==
    /\ pc = "v_popen"
    /\ IF ffmpeg
         THEN /\ \E left \in 0..MaxOutput : enc' = Spawn(VideoCommand, left)
              /\ pc' = "v_wait"
         ELSE /\ pc' = "v_except"
              /\ UNCHANGED enc
    /\ UNCHANGED <<envVars, returncode, pipe, inLeft, inPipe, threadVars,
                   sessionVars, fs, msgs, streams, plog>>

\* Line 123: process.wait() returns once the process has exited.
VideoWait ==
    /\ pc = "v_wait"
    /\ enc.st = "exited"
    /\ returncode' = enc.rc
    /\ pc' = "v_join"
    /\ UNCHANGED <<envVars, enc, pipe, inLeft, inPipe, threadVars, sessionVars,
                   fs, msgs, streams, plog>>

\* Line 125: progress_thread.join() returns once the thread has ended.
VideoJoin ==
    /\ pc = "v_join"
    /\ ~Alive(thread)
    /\ pc' = "v_report"
    /\ UNCHANGED <<envVars, procVars, threadVars, sessionVars, fs, msgs,
                   streams, plog>>

\* Lines 127-130: the result; stderr is read only to report a failure.
VideoReport ==
    /\ pc = "v_report"
    /\ IF returncode = "0"
         THEN /\ msgs' = msgs \cup {"Successfully merged and saved"}
              /\ UNCHANGED pipe
         ELSE /\ msgs' = msgs \cup {"Error during ffmpeg merging"}
              /\ pipe' = 0
    /\ pc' = "v_finally"
    /\ UNCHANGED <<envVars, enc, returncode, inLeft, inPipe, threadVars,
                   sessionVars, fs, streams, plog>>

\* Lines 132-133
VideoExcept ==
    /\ pc = "v_except"
    /\ msgs' = msgs \cup {"An error occurred during ffmpeg process"}
    /\ pc' = "v_finally"
    /\ UNCHANGED <<envVars, procVars, threadVars, sessionVars, fs, streams, plog>>

\* os.unlink of a file another handle of this process has open: Windows
\* refuses it (PermissionError), POSIX removes the name.
UnlinkRefused == platform = "Windows" /\ HoldsFile(thread)

\* Lines 134-142: the cleanup. An os.unlink that raises ends the block there.
VideoFinally ==
    /\ pc = "v_finally"
    /\ IF UnlinkRefused
         THEN /\ pc' = "handler"
              /\ UNCHANGED <<fs, msgs>>
         ELSE /\ fs' = [fs EXCEPT !["progress"] = "absent",
                                  !["video_tmp"] = "absent",
                                  !["audio_tmp"] = "absent"]
              /\ msgs' = msgs \cup {"Temporary files cleaned up."}
              /\ pc' = "op_end"
    /\ UNCHANGED <<envVars, procVars, threadVars, sessionVars, streams, plog>>

\* ---- _update_ffmpeg_progress (lines 183-200) ----------------------------

\* Line 184: open(progress_file_name, 'r')
ThreadOpen ==
    /\ thread = "started"
    /\ thread' = IF fs["progress"] # "absent" THEN "reading" ELSE "crashed"
    /\ UNCHANGED <<envVars, procVars, orphans, tpos, pbar, sessionVars, pc, fs,
                   msgs, streams, plog>>

\* Lines 186-200: one readline and what follows it
ThreadReadLine ==
    /\ thread = "reading"
    /\ IF tpos = Len(plog)
         THEN /\ thread' = "sleeping"
              /\ UNCHANGED <<tpos, pbar>>
         ELSE LET line == plog[tpos + 1]
              IN /\ tpos' = tpos + 1
                 /\ thread' = IF line = EndLine THEN "done" ELSE "reading"
                 /\ pbar' = IF line.key = "out_time_ms" /\ IsInt(line.val)
                              THEN ParseInt(line.val) \div 1000000
                              ELSE pbar
    /\ UNCHANGED <<envVars, procVars, orphans, sessionVars, pc, fs, msgs,
                   streams, plog>>

\* Line 188: sleep(0.1) is over
ThreadWake ==
    /\ thread = "sleeping"
    /\ thread' = "reading"
    /\ UNCHANGED <<envVars, procVars, orphans, tpos, pbar, sessionVars, pc, fs,
                   msgs, streams, plog>>

\* ---- the ffmpeg process -------------------------------------------------

\* ffmpeg opens its output: an existing file is replaced only under '-y';
\* without it (and with no terminal to ask) ffmpeg exits, the file untouched.
EncOpenOutput ==
    /\ enc.st = "running"
    /\ IF fs[enc.out] # "absent" /\ ~enc.overwrite
         THEN /\ enc' = [enc EXCEPT !.st = "exited", !.refused = TRUE,
                                     !.left = 0, !.rc = "1"]
              /\ UNCHANGED fs
         ELSE /\ enc' = [enc EXCEPT !.st = "encoding"]
              /\ fs' = [fs EXCEPT ![enc.out] = "new"]
    /\ UNCHANGED <<envVars, returncode, pipe, inLeft, inPipe, threadVars,
                   sessionVars, pc, msgs, streams, plog>>

\* ffmpeg writes a chunk to stderr; with the pipe full the write blocks.
EncWriteErr ==
    /\ enc.st \in {"running", "encoding"}
    /\ enc.left > 0
    /\ pipe < PipeCap
    /\ pipe' = pipe + 1
    /\ enc' = [enc EXCEPT !.left = enc.left - 1]
    /\ UNCHANGED <<envVars, returncode, inLeft, inPipe, threadVars, sessionVars,
                   pc, fs, msgs, streams, plog>>

\* ffmpeg appends a line to the file named by -progress (the merge command
\* only); "progress=end" is the last line it writes.
EncWriteProgress ==
    /\ enc.st = "encoding"
    /\ enc.out = "mp4"
    /\ Len(plog) < MaxLog
    /\ ~HasEnd(plog)
    /\ \E line \in ProgressLines : plog' = Append(plog, line)
    /\ UNCHANGED <<envVars, procVars, threadVars, sessionVars, pc, fs, msgs,
                   streams>>

\* ffmpeg reads a chunk of pipe:0 (the sound command only).
EncReadInput ==
    /\ enc.st = "encoding"
    /\ inPipe > 0
    /\ inPipe' = inPipe - 1
    /\ UNCHANGED <<envVars, enc, returncode, pipe, inLeft, threadVars,
                   sessionVars, pc, fs, msgs, streams, plog>>

\* ffmpeg has read all of its input: the merge reads files, the conversion
\* reads pipe:0 until communicate() has written and closed it.
InputConsumed == enc.out = "mp4" \/ (inLeft = 0 /\ inPipe = 0)

\* ffmpeg exits, everything it had to say written. A run that succeeds has
\* opened its output, read its input and ended its progress report; a run that
\* fails may exit at any point.
EncExit ==
    /\ enc.st \in {"running", "encoding"}
    /\ enc.left = 0
    /\ \E rc \in {"0", "1"} :
         /\ rc = "0" =>
              /\ enc.st = "encoding"
              /\ InputConsumed
              /\ enc.out = "mp4" => HasEnd(plog)
         /\ enc' = [enc EXCEPT !.st = "exited", !.rc = rc]
    /\ inPipe' = 0
    /\ UNCHANGED <<envVars, returncode, pipe, inLeft, threadVars, sessionVars,
                   pc, fs, msgs, streams, plog>>

\* ---- sound mode (lines 144-175) -----------------------------------------

\* Lines 145-150: the audio stream, read whole into memory. No stream at all
\* makes stream.stream_to_buffer raise (AttributeError on None).
SoundBuffer ==
    /\ pc = "s_select"
    /\ \E raises \in BOOLEAN, hasAudio \in BOOLEAN :
         IF raises \/ ~hasAudio
           THEN /\ pc' = "handler"
                /\ UNCHANGED <<streams, msgs>>
           ELSE /\ streams' = [selected |-> TRUE, video |-> FALSE, audio |-> TRUE]
                /\ msgs' = msgs \cup {"Streaming audio to ffmpeg for MP3 conversion..."}
                /\ pc' = "s_length"
    /\ UNCHANGED <<envVars, procVars, threadVars, sessionVars, fs, plog>>

\* Lines 154-161: the conversion command (no '-y')
SoundCommand ==
    [overwrite |-> FALSE,
     nostdin |-> FALSE,
     codec |-> "mp3",
     out |-> "mp3"]

\* Line 163: yt.length, outside the try of the conversion
SoundLength ==
    /\ pc = "s_length"
    /\ \E raises \in BOOLEAN :
         pc' = IF raises THEN "handler" ELSE "s_popen"
    /\ UNCHANGED <<envVars, procVars, threadVars, sessionVars, fs, msgs,
                   streams, plog>>

\* Line 166
SoundPopen ==
    /\ pc = "s_popen"
    /\ IF ffmpeg
         THEN /\ \E left \in 0..MaxOutput : enc' = Spawn(SoundCommand, left)
              /\ inLeft' = AudioChunks
              /\ pc' = "s_communicate"
         ELSE /\ pc' = "s_except"
              /\ UNCHANGED <<enc, inLeft>>
    /\ UNCHANGED <<envVars, returncode, pipe, inPipe, threadVars, sessionVars,
                   fs, msgs, streams, plog>>

\* Line 167, communicate(): write the input as the pipe takes it (a process
\* that has exited takes none: the broken pipe is ignored) ...
CommWrite ==
    /\ pc = "s_communicate"
    /\ inLeft > 0
    /\ IF enc.st = "exited"
         THEN /\ inLeft' = 0
              /\ UNCHANGED inPipe
         ELSE /\ inPipe < PipeCap
              /\ inPipe' = inPipe + 1
              /\ inLeft' = inLeft - 1
    /\ UNCHANGED <<envVars, enc, returncode, pipe, threadVars, sessionVars, pc,
                   fs, msgs, streams, plog>>

\* ... read what the process writes ...
CommRead ==
    /\ pc = "s_communicate"
    /\ pipe > 0
    /\ pipe' = pipe - 1
    /\ UNCHANGED <<envVars, enc, returncode, inLeft, inPipe, threadVars,
                   sessionVars, pc, fs, msgs, streams, plog>>

\* ... until the input is written, the outputs are at their end and the
\* process has exited.
CommDone ==
    /\ pc = "s_communicate"
    /\ inLeft = 0
    /\ pipe = 0
    /\ enc.st = "exited"
    /\ returncode' = enc.rc
    /\ pc' = "s_report"
    /\ UNCHANGED <<envVars, enc, pipe, inLeft, inPipe, threadVars, sessionVars,
                   fs, msgs, streams, plog>>

\* Lines 169-172
SoundReport ==
    /\ pc = "s_report"
    /\ msgs' = msgs \cup {IF returncode = "0" THEN "Successfully created"
                          ELSE "Error during ffmpeg conversion"}
    /\ pc' = "op_end"
    /\ UNCHANGED <<envVars, procVars, threadVars, sessionVars, fs, streams, plog>>

\* Lines 174-175
SoundExcept ==
    /\ pc = "s_except"
    /\ msgs' = msgs \cup {"An error occurred during ffmpeg conversion"}
    /\ pc' = "op_end"
    /\ UNCHANGED <<envVars, procVars, threadVars, sessionVars, fs, streams, plog>>

\* ---- _download_playlist (lines 202-218) ---------------------------------

\* A URL is a sequence of tokens: "L" is the text "list=", "c" a character of
\* [a-zA-Z0-9_-], "&" any other character.
UrlTokens == {"L", "c", "&"}
Urls == UNION {[1..n -> UrlTokens] : n \in 0..MaxUrlLen}

HasListParam(url) == \E i \in 1..Len(url) : url[i] = "L"

\* re.search(r"list=([a-zA-Z0-9_-]+)", url): the places it matches at
Matches(url) == {i \in 1..Len(url) : url[i] = "L" /\ i < Len(url) /\ url[i + 1] = "c"}

\* .group(1) of the leftmost match: the longest run of id characters after it
RECURSIVE RunFrom(_, _)
RunFrom(url, i) ==
    IF i <= Len(url) /\ url[i] = "c" THEN <<"c">> \o RunFrom(url, i + 1) ELSE <<>>

Group1(url) ==
    LET first == CHOOSE i \in Matches(url) : \A j \in Matches(url) : i <= j
    IN RunFrom(url, first + 1)

\* Lines 205-207: no match makes .group raise (AttributeError on None).
PlaylistCall ==
    /\ pc = "pl_call"
    /\ \E url \in Urls :
         IF Matches(url) = {}
           THEN /\ pl' = [pl EXCEPT !.active = TRUE,
                                    !.listParam = HasListParam(url)]
                /\ pc' = "pl_handler"
           ELSE /\ pl' = [pl EXCEPT !.active = TRUE,
                                    !.listParam = HasListParam(url),
                                    !.id = Group1(url)]
                /\ pc' = "pl_resolve"
    /\ UNCHANGED <<envVars, procVars, threadVars, mode, lastCmd, ops, fs, msgs,
                   streams, plog>>

\* Lines 208-210: the playlist resolves to its video URLs, or raises.
PlaylistResolve ==
    /\ pc = "pl_resolve"
    /\ \E raises \in BOOLEAN, n \in 0..MaxPlaylist :
         IF raises
           THEN /\ pc' = "pl_handler"
                /\ UNCHANGED pl
           ELSE /\ pl' = [pl EXCEPT !.resolved = TRUE,
                                    !.urls = [i \in 1..n |-> i]]
                /\ pc' = "pl_loop"
    /\ UNCHANGED <<envVars, procVars, threadVars, mode, lastCmd, ops, fs, msgs,
                   streams, plog>>

\* Lines 212-213 and 216: the next URL goes to _download_video
PlaylistNextItem ==
    /\ pc = "pl_loop"
    /\ IF pl.idx < Len(pl.urls)
         THEN /\ pl' = [pl EXCEPT !.idx = pl.idx + 1,
                                  !.invoked = Append(pl.invoked, pl.urls[pl.idx + 1])]
              /\ pc' = "start"
         ELSE /\ pl' = [pl EXCEPT !.result = "finished"]
              /\ pc' = "pl_done"
    /\ UNCHANGED <<envVars, procVars, threadVars, mode, lastCmd, ops, fs, msgs,
                   streams, plog>>

\* Line 214: sleep(1)
PlaylistSleep ==
    /\ pc = "pl_sleep"
    /\ pl' = [pl EXCEPT !.pauses = pl.pauses + 1]
    /\ pc' = "pl_loop"
    /\ UNCHANGED <<envVars, procVars, threadVars, mode, lastCmd, ops, fs, msgs,
                   streams, plog>>

\* Lines 217-218
PlaylistHandler ==
    /\ pc = "pl_handler"
    /\ pl' = [pl EXCEPT !.result = "error"]
    /\ pc' = "pl_done"
    /\ UNCHANGED <<envVars, procVars, threadVars, mode, lastCmd, ops, fs, msgs,
                   streams, plog>>

\* ---- the specifications -------------------------------------------------

\* What one _download_video does, with the thread and the process it starts
DownloadVideo ==
    \/ BeginOp
    \/ CaptionStep
    \/ Branch
    \/ VideoSelect
    \/ VideoMkdir
    \/ VideoDownloadVideo
    \/ VideoDownloadAudio
    \/ VideoProgressFile
    \/ VideoLength
    \/ VideoThreadStart
    \/ VideoPopen
    \/ VideoWait
    \/ VideoJoin
    \/ VideoReport
    \/ VideoExcept
    \/ VideoFinally
    \/ SoundBuffer
    \/ SoundLength
    \/ SoundPopen
    \/ CommWrite
    \/ CommRead
    \/ CommDone
    \/ SoundReport
    \/ SoundExcept
    \/ Handler
    \/ OpEnd

ProgressThread ==
    \/ ThreadOpen
    \/ ThreadReadLine
    \/ ThreadWake

Encoder ==
    \/ EncOpenOutput
    \/ EncWriteErr
    \/ EncWriteProgress
    \/ EncReadInput
    \/ EncExit

\* The program as started: downloader.run()
Next ==
    \/ CheckDependencies
    \/ Prompt
    \/ DownloadVideo
    \/ ProgressThread
    \/ Encoder

Spec == Init /\ [][Next]_vars

\* _download_playlist called on a downloader (run() never calls it)
PlaylistInit ==
    /\ platform \in Platforms
    /\ ffmpeg \in BOOLEAN
    /\ mode \in {"S", "V"}
    /\ pc = "pl_call"
    /\ lastCmd = "none"
    /\ ops = 0
    /\ fs = [x \in Files |-> "absent"]
    /\ msgs = {}
    /\ streams = NoStreams
    /\ thread = "none"
    /\ orphans = 0
    /\ enc = NoEnc
    /\ returncode = "None"
    /\ pipe = 0
    /\ inLeft = 0
    /\ inPipe = 0
    /\ plog = <<>>
    /\ tpos = 0
    /\ pbar = 0
    /\ pl = NoPlaylist

PlaylistNext ==
    \/ PlaylistCall
    \/ PlaylistResolve
    \/ PlaylistNextItem
    \/ PlaylistSleep
    \/ PlaylistHandler
    \/ DownloadVideo
    \/ ProgressThread
    \/ Encoder

SpecPlaylist == PlaylistInit /\ [][PlaylistNext]_vars

\* Every process that can take a step eventually takes one: the interpreter
\* runs the orchestrator and the progress thread (which wakes every 0.1 s),
\* and the operating system runs ffmpeg. The user at the prompt owes nothing.
FairSpec ==
    /\ Spec
    /\ WF_vars(CheckDependencies)
    /\ WF_vars(DownloadVideo)
    /\ WF_vars(ProgressThread)
    /\ WF_vars(Encoder)

\* ---- the claims ---------------------------------------------------------

TempArtifacts == {"video_tmp", "audio_tmp", "progress"}

\* The merge step (the try of line 117) was entered by the current operation:
\* its progress thread was started.
MergeEntered == thread # "none"

\* C1: in video mode, once both streams are downloaded and the merge step is
\* entered, when the operation ends neither elementary-stream file nor the
\* progress log exists, whatever the merge's outcome (exit code 0, non-zero,
\* or an exception while starting the encoder).
C1_MergeLeavesNoTempFiles ==
    (pc = "op_end" /\ MergeEntered) => \A f \in TempArtifacts : fs[f] = "absent"

\* C2: every temporary artifact a video-mode operation creates (the two
\* elementary-stream files and the progress file) is deleted by the time the
\* operation ends, however it ends.
C2_NoTempArtifactSurvives ==
    pc = "op_end" => \A f \in TempArtifacts : fs[f] # "new"

\* C3: the mode is Sound initially and always equals the target of the most
\* recent /video or /sound command typed (Sound if none): blank lines and
\* downloads, failed or not, leave it alone.
C3_ModeFollowsLastCommand ==
    mode = (IF lastCmd = "none" THEN "S" ELSE lastCmd)

\* C3 witness: a failed download in Video mode, back at the prompt, the mode
\* still Video.
C3_Witness ==
    /\ pc = "prompt"
    /\ lastCmd = "V"
    /\ mode = "V"
    /\ ops > 0
    /\ "An error occurred during video processing" \in msgs

\* C4: in both modes, with a file already at the final output path, the
\* encoder is started with the instruction to overwrite, and so replaces the
\* file instead of refusing because it exists.
C4_ExistingOutputOverwritten ==
    /\ (enc.st = "running" /\ fs[enc.out] # "absent") => enc.overwrite
    /\ ~enc.refused

\* C5: a failure of the caption step never aborts the download: whatever the
\* caption step's outcome, the operation goes on to the mode branch in the
\* state success would have left, but for the caption file and the messages.
C5_CaptionNeverAborts ==
    [][(pc = "caption" /\ pc' # "caption") =>
          /\ pc' = "branch"
          /\ \A f \in Files \ {"caption"} : fs'[f] = fs[f]
          /\ UNCHANGED <<envVars, procVars, threadVars, sessionVars, streams,
                         plog>>]_vars

\* C5 witness: the caption step raised and the media download went on to a
\* successful encoder run.
C5_Witness ==
    /\ "Could not download captions" \in msgs
    /\ pc = "op_end"
    /\ returncode = "0"

\* C6: for a playlist of N video URLs the single-video operation is invoked
\* once per URL, in playlist order, one at a time, with a pause after each
\* invocation, whatever the invocations report; with no "list=" in the URL it
\* is never invoked.
C6_PlaylistInvokesEachOnce ==
    /\ pl.invoked = SubSeq(pl.urls, 1, pl.idx)
    /\ pl.pauses = (IF pc \in {"pl_loop", "pl_done", "pl_handler", "pl_call",
                                "pl_resolve"}
                      THEN Len(pl.invoked)
                      ELSE Len(pl.invoked) - 1)
    /\ (pc = "pl_done" /\ pl.resolved) =>
          (pl.result = "finished" /\ pl.invoked = pl.urls)
    /\ (pl.active /\ ~pl.listParam) => (~pl.resolved /\ pl.invoked = <<>>)

\* C6 witness: the first invocation reported an error and the second URL has
\* been handed to the single-video operation.
C6_Witness ==
    /\ pc = "start"
    /\ pl.idx = 2
    /\ pl.invoked = <<1, 2>>
    /\ pl.pauses = 1
    /\ "An error occurred during video processing" \in msgs

StreamMissing ==
    mode = "V" /\ streams.selected /\ ~(streams.video /\ streams.audio)

MissingReported ==
    IF ~streams.video THEN "No video stream found." \in msgs
    ELSE "No audio stream found." \in msgs

\* C7 as stated: in video mode with the video-only or the audio-only stream
\* missing, the operation reports it and ends with nothing downloaded: no file
\* written to the download directory or .temp, .temp not created, the encoder
\* never invoked.
C7_MissingStreamWritesNothing ==
    (StreamMissing /\ pc = "op_end") =>
        /\ MissingReported
        /\ \A f \in Files : fs[f] # "new"
        /\ enc.st = "none"
        /\ thread = "none"

\* C7 as amended: ... no file but the caption file, which the caption step
\* may have written before the streams were looked at.
C7_MissingStreamWritesNoMedia ==
    (StreamMissing /\ pc = "op_end") =>
        /\ MissingReported
        /\ \A f \in Files \ {"caption"} : fs[f] # "new"
        /\ enc.st = "none"
        /\ thread = "none"

\* C7 witness: the audio stream is missing, the captions were downloaded.
C7_Witness ==
    /\ StreamMissing
    /\ pc = "op_end"
    /\ streams.video
    /\ fs["caption"] = "new"

\* C8: whenever the encoder exits in video mode, with whatever exit code and
\* whatever it wrote to its progress log, the operation eventually reports the
\* result, removes the temporary files, and the main loop prompts again.
C8_EncoderExitLeadsToPrompt ==
    (pc = "v_wait" /\ enc.st = "exited") ~>
        /\ pc = "prompt"
        /\ \E m \in {"Successfully merged and saved", "Error during ffmpeg merging"} :
              m \in msgs
        /\ \A f \in TempArtifacts : fs[f] = "absent"

\* C9: wherever the orchestrator is past the merge (printing the result,
\* handling the exception, cleaning up, returning, back at the prompt), no
\* progress thread is still running.
C9_ThreadJoinedBeforeProceeding ==
    pc \notin {"v_popen", "v_wait", "v_join"} => (~Alive(thread) /\ orphans = 0)

\* C10: in video mode the encoder is never blocked writing to a full pipe
\* while the orchestrator waits for it to exit without reading that pipe.
C10_NoPipeDeadlock ==
    ~(/\ pc = "v_wait"
      /\ enc.st \in {"running", "encoding"}
      /\ enc.left > 0
      /\ pipe = PipeCap)
====
